---- MODULE Spec2Model ----
(***************************************************************************)
(* Share-card rendering service (RowLab): the data-to-layout engine of the *)
(* erg summary card, design B (templates/erg_summary_alt.py).              *)
(*                                                                         *)
(* Units.  Durations (durationSeconds, timeSeconds) are held in tenths of  *)
(* a second, the resolution at which Python's binary floating point and    *)
(* the integer arithmetic below agree digit for digit; restTime and        *)
(* paceTenths are tenths already in the source.  Pixel quantities are      *)
(* integers, as in the source (every int(...) is a floor of a positive     *)
(* quotient).                                                              *)
(***************************************************************************)
EXTENDS Integers, Sequences, FiniteSets, TLC

VARIABLES
    data,            \* the workout record handed to the renderer
    format_key,      \* '1:1' or '9:16'
    pc,              \* position inside render_erg_summary_alt
    title,           \* build_title(workout_data)
    stats,           \* the summary stats grid, hero metric first
    uniform_rest,    \* has_uniform_rest(splits), a pair <<uniform, value>>
    intervals,       \* is_interval(workout_data)
    show_rest_rows,  \* rest-row policy
    columns,         \* get_table_columns(workout_data): the headers, in order
    avail_height,    \* vertical pixels left for the table rows
    data_row_h, rest_row_h, data_font, max_rows,
    cy,              \* vertical advance of the table loop below the header
    shown,           \* indices of the splits drawn so far, in drawing order
    rest_drawn,      \* indices of the splits a rest row was drawn after
    trunc,           \* the truncation lines drawn under the table (at most one)
    cells,           \* the formatted cells of the data rows drawn, row by row
    dots,            \* the pace dot of each data row drawn, "none" when not drawn
    arg, result,     \* a formatter called on its own: its argument, its result
    reqs,            \* the generate_card requests in progress, by request
    rng              \* the generator of the random module: <<seed, numbers drawn>>

\* the variables of a formatter call
call == <<arg, result>>

\* the variables of the service: requests and the state they share
service == <<reqs, rng>>

vars == <<data, format_key, pc, title, stats, uniform_rest, intervals,
          show_rest_rows, columns, avail_height, data_row_h, rest_row_h,
          data_font, max_rows, cy, shown, rest_drawn, trunc, cells, dots, call, service>>

(***************************************************************************)
(* Python values                                                           *)
(***************************************************************************)

\* None, and the result of dict.get on a missing key
None == -1

\* Python truthiness of a numeric field: None and 0 are falsy
Truthy(v) == v # None /\ v # 0

Max(a, b) == IF a >= b THEN a ELSE b
Min(a, b) == IF a <= b THEN a ELSE b

\* f"{k:02d}"
Pad2(k) == IF k < 10 THEN "0" \o ToString(k) ELSE ToString(k)

Pad3(k) == IF k < 10 THEN "00" \o ToString(k)
           ELSE IF k < 100 THEN "0" \o ToString(k) ELSE ToString(k)

\* f"{m:,}" : thousands separators
RECURSIVE Commas(_)
Commas(m) == IF m < 1000 THEN ToString(m)
             ELSE Commas(m \div 1000) \o "," \o Pad3(m % 1000)

UpperCase == "ABCDEFGHIJKLMNOPQRSTUVWXYZ"
LowerCase == "abcdefghijklmnopqrstuvwxyz"

Letter(alphabet, k) == SubSeq(alphabet, k, k)

LowerMap ==
    [c \in {Letter(UpperCase, k) : k \in 1..26} |->
        Letter(LowerCase, CHOOSE k \in 1..26 : Letter(UpperCase, k) = c)]

LowerChar(c) == IF c \in DOMAIN LowerMap THEN LowerMap[c] ELSE c

\* str.lower()
RECURSIVE Lower(_)
Lower(s) == IF s = "" THEN ""
            ELSE LowerChar(SubSeq(s, 1, 1)) \o Lower(SubSeq(s, 2, Len(s)))

UpperMap ==
    [c \in {Letter(LowerCase, k) : k \in 1..26} |->
        Letter(UpperCase, CHOOSE k \in 1..26 : Letter(LowerCase, k) = c)]

UpperChar(c) == IF c \in DOMAIN UpperMap THEN UpperMap[c] ELSE c

\* str.upper()
RECURSIVE Upper(_)
Upper(s) == IF s = "" THEN ""
            ELSE UpperChar(SubSeq(s, 1, 1)) \o Upper(SubSeq(s, 2, Len(s)))

\* sub in s
Contains(s, sub) ==
    \E k \in 1..(Len(s) - Len(sub) + 1) : SubSeq(s, k, k + Len(sub) - 1) = sub

\* [f(x) for x in seq if x]  over a sequence of numbers
Truthies(seq) == SelectSeq(seq, Truthy)

\* len(set(seq)) == 1 for a non-empty sequence
AllSame(seq) == \A k \in 1..Len(seq) : seq[k] = seq[1]

RECURSIVE Sum(_)
Sum(seq) == IF seq = <<>> THEN 0 ELSE Head(seq) + Sum(Tail(seq))

(***************************************************************************)
(* Machine-aware helpers                                                   *)
(***************************************************************************)

_machine(d) ==
    Lower(IF d.rawMachineType # "" THEN d.rawMachineType
          ELSE IF d.machineType # "" THEN d.machineType ELSE "rower")

is_bike(d) == _machine(d) \in {"bike", "bikerg"}

pace_unit(d) == IF is_bike(d) THEN "/1000m" ELSE "/500m"

pace_unit_short(d) == IF is_bike(d) THEN "/1Km" ELSE "/500m"

\* rate_label ignoring the machine
rate_label_AlwaysSPM(d) == "SPM"

rate_label(d) == IF is_bike(d) THEN "RPM" ELSE "SPM"

machine_label(d) ==
    LET m == _machine(d)
    IN  CASE m = "rower" -> "ERG"
          [] m \in {"slides", "dynamic"} -> "DYNAMIC"
          [] m = "skierg" -> "SKIERG"
          [] m \in {"bike", "bikerg"} -> "BIKEERG"
          [] OTHER -> "ERG"

TEST_DISTANCES == {500, 1000, 2000, 5000, 6000}

(***************************************************************************)
(* Formatting                                                              *)
(***************************************************************************)

\* format_time_clean of a duration of c hundredths of a second whose last
\* digit is not 5.  The float code rounds twice, each time to nearest:
\* tenths = round((secs % 1) * 10) decides whether a decimal is shown, and
\* the format {secs:04.1f} rounds secs itself to one decimal.  (On a last
\* digit of 5 the float rounds the way its binary value falls.)
format_time_clean_centis(c) ==
    IF ~Truthy(c) THEN "--:--"
    ELSE LET hrs == c \div 360000
             mins == (c % 360000) \div 6000
             secs == c % 6000
             tenths == ((secs % 100) + 5) \div 10
             whole_secs == secs \div 100
             rounded == (secs + 5) \div 10
             tail == IF tenths = 0 THEN Pad2(whole_secs)
                     ELSE Pad2(rounded \div 10) \o "." \o ToString(rounded % 10)
         IN  IF hrs > 0
             THEN ToString(hrs) \o ":" \o Pad2(mins) \o ":" \o tail
             ELSE ToString(mins) \o ":" \o tail

\* seconds is in tenths of a second
format_time_clean(seconds) ==
    IF seconds = None THEN "--:--"
    ELSE format_time_clean_centis(seconds * 10)

\* format_pace without the doubling for a bike
format_pace_NoDoubling(pace_tenths_per_500m, d) ==
    IF ~Truthy(pace_tenths_per_500m) THEN "--:--"
    ELSE LET mins == pace_tenths_per_500m \div 600
             secs == pace_tenths_per_500m % 600
         IN  ToString(mins) \o ":" \o Pad2(secs \div 10) \o "."
                 \o ToString(secs % 10)

format_pace(pace_tenths_per_500m, d) ==
    IF ~Truthy(pace_tenths_per_500m) THEN "--:--"
    ELSE LET tenths == IF is_bike(d) THEN pace_tenths_per_500m * 2
                       ELSE pace_tenths_per_500m
             mins == tenths \div 600
             secs == tenths % 600
         IN  ToString(mins) \o ":" \o Pad2(secs \div 10) \o "."
                 \o ToString(secs % 10)

\* returns the string, or "None" for Python's None (as an f-string shows it)
format_rest_tenths(tenths) ==
    IF ~Truthy(tenths) THEN "None"
    ELSE LET total == tenths \div 10
             mins == total \div 60
             secs == total % 60
         IN  IF mins > 0 THEN ToString(mins) \o ":" \o Pad2(secs)
             ELSE ":" \o Pad2(secs)

\* seconds is in tenths of a second
format_time_coach(seconds) ==
    IF ~Truthy(seconds) THEN "--"
    ELSE LET whole == seconds \div 10
             mins == whole \div 60
             secs == whole % 60
         IN  IF mins > 0 /\ secs = 0 THEN ToString(mins) \o "'"
             ELSE IF mins > 0 THEN ToString(mins) \o "'" \o Pad2(secs) \o "\""
             ELSE ToString(secs) \o "\""

\* format_rest_coach in the clock style of format_rest_tenths
format_rest_coach_Clock(tenths) ==
    IF ~Truthy(tenths) THEN "None" ELSE format_rest_tenths(tenths) \o "r"

format_rest_coach(tenths) ==
    IF ~Truthy(tenths) THEN "None"
    ELSE LET total == tenths \div 10
             mins == total \div 60
             secs == total % 60
         IN  IF mins > 0 /\ secs = 0 THEN ToString(mins) \o "'r"
             ELSE IF mins > 0 THEN ToString(mins) \o "'" \o Pad2(secs) \o "\"r"
             ELSE ToString(secs) \o "\"r"

format_distance(meters) ==
    IF ~Truthy(meters) THEN "--"
    ELSE IF meters >= 1000 /\ meters % 1000 = 0
         THEN ToString(meters \div 1000) \o "K"
         ELSE Commas(meters) \o "m"

(***************************************************************************)
(* Workout classification                                                  *)
(***************************************************************************)

\* is_interval reading the type name as it is written
is_interval_CaseSensitive(d) == d.isInterval \/ Contains(d.workoutType, "interval")

is_interval(d) == d.isInterval \/ Contains(Lower(d.workoutType), "interval")

is_fixed_time_type(d) == d.workoutType \in {"FixedTimeSplits", "FixedTimeInterval"}

\* is_fixed_dist_type without the interval type
is_fixed_dist_type_SplitsOnly(d) == d.workoutType = "FixedDistanceSplits"

is_fixed_dist_type(d) ==
    d.workoutType \in {"FixedDistanceSplits", "FixedDistanceInterval"}

\* splits[:-1] if len(splits) > 1 else splits
work_splits(splits) ==
    IF Len(splits) > 1 THEN SubSeq(splits, 1, Len(splits) - 1) ELSE splits

RestTimes(splits) ==
    LET ws == work_splits(splits)
    IN  Truthies([k \in 1..Len(ws) |-> ws[k].restTime])

has_uniform_rest(splits) ==
    LET rest_times == RestTimes(splits)
    IN  IF rest_times = <<>> THEN <<TRUE, None>>
        ELSE IF AllSame(rest_times) THEN <<TRUE, rest_times[1]>>
        ELSE <<FALSE, None>>

has_valuable_rest_data(splits) ==
    \E k \in 1..Len(splits) : Truthy(splits[k].heartRateRest)

(***************************************************************************)
(* Title builder                                                           *)
(***************************************************************************)

Field(splits, f) == [k \in 1..Len(splits) |-> splits[k][f]]

\* The mean of the rests is a float in the source; format_rest_coach only
\* takes floors of it, and floor(floor(S/k)/10) = floor(S/(10k)), so the
\* floored mean gives the same string.
_rest_label(splits, approx) ==
    LET rest_times == RestTimes(splits)
    IN  IF rest_times = <<>> THEN ""
        ELSE IF AllSame(rest_times)
             THEN IF approx THEN " / ~" \o format_rest_coach(rest_times[1])
                  ELSE " / " \o format_rest_coach(rest_times[1])
        ELSE " / ~" \o format_rest_coach(Sum(rest_times) \div Len(rest_times))

\* the numeric workoutType 0 (JustRow) is held as the string "0"
IsJustRow(wtype) == wtype = "JustRow" \/ wtype = "0"

\* int(t) of a duration held in tenths
IntSeconds(seq) == [k \in 1..Len(seq) |-> seq[k] \div 10]

IntervalTitle(d) ==
    LET wtype == d.workoutType
        splits == d.splits
        n == ToString(Len(splits))
        distances == Truthies(Field(splits, "distanceM"))
        times == Truthies(Field(splits, "timeSeconds"))
    IN  IF wtype = "FixedDistanceInterval" /\ distances # <<>> /\ AllSame(distances)
        THEN n \o "x" \o format_distance(distances[1]) \o _rest_label(splits, FALSE)
        ELSE IF wtype = "FixedTimeInterval" /\ times # <<>>
                /\ AllSame(IntSeconds(times))
        THEN n \o "x" \o format_time_coach(times[1]) \o _rest_label(splits, FALSE)
        ELSE IF wtype \in {"VariableInterval", "VariableIntervalUndefinedRest"}
        THEN IF distances # <<>> /\ AllSame(distances)
             THEN n \o "x" \o format_distance(distances[1])
                    \o _rest_label(splits, TRUE)
             ELSE n \o " pieces"
        ELSE n \o " intervals" \o _rest_label(splits, FALSE)

\* ContinuousTitle preferring the total duration to the total distance
ContinuousTitle_DurationFirst(d) ==
    IF d.workoutType = "FixedTimeSplits" THEN format_time_coach(d.durationSeconds)
    ELSE IF d.workoutType = "FixedDistanceSplits" THEN format_distance(d.distanceM)
    ELSE IF Truthy(d.durationSeconds) THEN format_time_coach(d.durationSeconds)
    ELSE IF Truthy(d.distanceM) THEN format_distance(d.distanceM)
    ELSE machine_label(d)

ContinuousTitle(d) ==
    IF d.workoutType = "FixedTimeSplits" THEN format_time_coach(d.durationSeconds)
    ELSE IF d.workoutType = "FixedDistanceSplits" THEN format_distance(d.distanceM)
    ELSE IF Truthy(d.distanceM) THEN format_distance(d.distanceM)
    ELSE IF Truthy(d.durationSeconds) THEN format_time_coach(d.durationSeconds)
    ELSE machine_label(d)

build_title(d) ==
    IF IsJustRow(d.workoutType) /\ d.inferredTitle # "" THEN d.inferredTitle
    ELSE IF is_interval(d) /\ d.splits # <<>> THEN IntervalTitle(d)
    ELSE ContinuousTitle(d)

(***************************************************************************)
(* Hero metric selection                                                   *)
(***************************************************************************)

\* get_hero with the test-distance rule not limited to continuous pieces
get_hero_AnyTestDistance(d) ==
    IF Truthy(d.distanceM) /\ d.distanceM \in TEST_DISTANCES
    THEN <<format_time_clean(d.durationSeconds), "TOTAL TIME">>
    ELSE IF d.workoutType = "FixedTimeInterval" /\ is_bike(d) /\ Truthy(d.avgWatts)
    THEN <<ToString(d.avgWatts), "AVG WATTS">>
    ELSE IF is_interval(d)
    THEN <<format_pace(d.avgPaceTenths, d), "AVG SPLIT " \o pace_unit(d)>>
    ELSE <<format_pace(d.avgPaceTenths, d), "AVG PACE " \o pace_unit(d)>>

get_hero(d) ==
    IF Truthy(d.distanceM) /\ d.distanceM \in TEST_DISTANCES /\ ~is_interval(d)
    THEN <<format_time_clean(d.durationSeconds), "TOTAL TIME">>
    ELSE IF d.workoutType = "FixedTimeInterval" /\ is_bike(d) /\ Truthy(d.avgWatts)
    THEN <<ToString(d.avgWatts), "AVG WATTS">>
    ELSE IF is_interval(d)
    THEN <<format_pace(d.avgPaceTenths, d), "AVG SPLIT " \o pace_unit(d)>>
    ELSE <<format_pace(d.avgPaceTenths, d), "AVG PACE " \o pace_unit(d)>>

(***************************************************************************)
(* Table columns                                                           *)
(***************************************************************************)

Col(key, header, align) == [key |-> key, header |-> header, align |-> align]

get_table_columns(d) ==
    LET pace_hdr == "PACE (" \o pace_unit_short(d) \o ")"
        rl == Lower(rate_label(d))
        tailCols == << Col("pace", pace_hdr, "left"), Col("watts", "WATTS", "right"),
                       Col("rate", Upper(rl), "right"), Col("hr", "HR", "right") >>
    IN  IF is_fixed_time_type(d) THEN <<Col("dist", "DIST", "left")>> \o tailCols
        ELSE IF is_fixed_dist_type(d) THEN <<Col("time", "TIME", "left")>> \o tailCols
        ELSE IF d.workoutType \in {"VariableInterval", "VariableIntervalUndefinedRest"}
        THEN <<Col("dist", "DIST", "left"), Col("time", "TIME", "left")>> \o tailCols
        ELSE tailCols

\* compute_pace_stats taking the mean over every split, paced or not
compute_pace_stats_AllSplits(splits) ==
    LET paces == Truthies(Field(splits, "paceTenths"))
    IN  IF paces = << >> THEN << >>
        ELSE [i \in {k \in 1..Len(splits) : Truthy(splits[k].paceTenths)} |->
                 <<splits[i].paceTenths * Len(splits) - Sum(paces), Sum(paces)>>]

\* the deviation of every split that has a pace from the mean pace of those
\* splits, (p - avg) / avg with avg = sum(paces) / len(paces), held as the
\* fraction <<p * len(paces) - sum(paces), sum(paces)>>
compute_pace_stats(splits) ==
    LET paces == Truthies(Field(splits, "paceTenths"))
    IN  IF paces = << >> THEN << >>
        ELSE [i \in {k \in 1..Len(splits) : Truthy(splits[k].paceTenths)} |->
                 <<splits[i].paceTenths * Len(paces) - Sum(paces), Sum(paces)>>]

\* pace_devs.get(i): the deviation, or << >> for None
PaceDev(pace_devs, i) == IF i \in DOMAIN pace_devs THEN pace_devs[i] ELSE << >>

\* draw_pace_dot with the two colours exchanged
draw_pace_dot_Swapped(deviation) ==
    IF deviation = << >> THEN "none"
    ELSE IF 200 * deviation[1] < -deviation[2] THEN "behind"
    ELSE IF 200 * deviation[1] > deviation[2] THEN "ahead"
    ELSE "even"

\* the dot drawn: gold below -0.005 (ahead), rose above 0.005 (behind),
\* muted in between (even); no dot without a deviation
draw_pace_dot(deviation) ==
    IF deviation = << >> THEN "none"
    ELSE IF 200 * deviation[1] < -deviation[2] THEN "ahead"
    ELSE IF 200 * deviation[1] > deviation[2] THEN "behind"
    ELSE "even"

\* the format functions of the columns, by column key
fmt_dist(s) == IF Truthy(s.distanceM) THEN Commas(s.distanceM) \o "m" ELSE "--"

fmt_time(s) == format_time_clean(s.timeSeconds)

fmt_pace(s, d) == format_pace(s.paceTenths, d)

fmt_watts(s) == IF Truthy(s.watts) THEN ToString(s.watts) ELSE "--"

fmt_rate(s) == IF s.strokeRate # None THEN ToString(s.strokeRate) ELSE "--"

fmt_hr(s) == IF s.heartRate # None THEN ToString(s.heartRate) ELSE "--"

\* val = fmt_fn(split) for the column with this key
FmtCell(key, s, d) ==
    CASE key = "dist" -> fmt_dist(s)
      [] key = "time" -> fmt_time(s)
      [] key = "pace" -> fmt_pace(s, d)
      [] key = "watts" -> fmt_watts(s)
      [] key = "rate" -> fmt_rate(s)
      [] key = "hr" -> fmt_hr(s)

\* the cells of one data row, in column order
RowCells(cols, s, d) == [k \in 1..Len(cols) |-> FmtCell(cols[k].key, s, d)]

(***************************************************************************)
(* Main renderer: header section                                           *)
(***************************************************************************)

\* DIMENSIONS[format_key][1]
Height(fmt) == IF fmt = "9:16" THEN 3840 ELSE 2160

\* auto-sizing of the title by its length
hero_font_size(title_len) ==
    IF title_len <= 12 THEN 200
    ELSE IF title_len <= 18 THEN 160
    ELSE IF title_len <= 24 THEN 120
    ELSE 100

\* hero_y + int(hero_font_size * 1.5)
metrics_y(title_len) == 300 + (hero_font_size(title_len) * 3) \div 2

\* the summary stats, hero metric first
SummaryStats(d) ==
    LET hero == get_hero(d)
        hero_is_watts == Contains(Upper(hero[2]), "WATTS")
        second ==
            IF ~hero_is_watts /\ d.avgWatts # None
            THEN << <<ToString(d.avgWatts), "WATTS">> >>
            ELSE IF hero_is_watts /\ Truthy(d.avgPaceTenths)
            THEN << <<format_pace(d.avgPaceTenths, d), "AVG PACE " \o pace_unit(d)>> >>
            ELSE IF Truthy(d.durationSeconds)
            THEN << <<format_time_clean(d.durationSeconds), "TOTAL TIME">> >>
            ELSE << >>
        rate == IF d.strokeRate # None
                THEN << <<ToString(d.strokeRate), rate_label(d)>> >> ELSE << >>
        hr == IF d.avgHeartRate # None
              THEN << <<ToString(d.avgHeartRate), "AVG HR">> >> ELSE << >>
    IN  <<hero>> \o second \o rate \o hr

\* bottom of the column header row, where the first data row starts
TableTop(title_len, n_stats) ==
    LET stats_rows == IF n_stats >= 4 THEN 2 ELSE 1
        table_start_y == metrics_y(title_len) + stats_rows * 140 + 100
        header_y == table_start_y + 50
        col_header_y == header_y + 60
    IN  col_header_y + 52

\* the available height taken from the middle of the canvas
AvailHeight_HalfCanvas(fmt, title_len, n_stats) ==
    Height(fmt) \div 2 - TableTop(title_len, n_stats) - 220

\* avail_height = height - cy - branding_reserve
AvailHeight(fmt, title_len, n_stats) == Height(fmt) - TableTop(title_len, n_stats) - 220

is_short_workout(d) ==
    Len(d.splits) <= 3 /\ d.workoutType \in {"JustRow", "FixedTimeSplits"}

\* the rest-row policy without the recovery heart rate
ShowRestRows_NoHeartRate(iv, splits) == iv /\ ~has_uniform_rest(splits)[1]

\* show_rest_rows = intervals and (not uniform_rest or has_valuable_rest_data)
ShowRestRows(iv, splits) ==
    iv /\ (~has_uniform_rest(splits)[1] \/ has_valuable_rest_data(splits))

(***************************************************************************)
(* Main renderer: dynamic sizing of the table                              *)
(***************************************************************************)

n_rest_rows(n, iv, show) == IF iv /\ show THEN Max(0, n - 1) ELSE 0

\* ideal_row_h = avail_height / (n + 0.5 * n_rest); only int(ideal_row_h) and
\* int(ideal_row_h * 0.5) are used
IdealRowH(n, H, nrest) == IF 2 * n + nrest > 0 THEN (2 * H) \div (2 * n + nrest) ELSE 80

IdealHalfRowH(n, H, nrest) == IF 2 * n + nrest > 0 THEN H \div (2 * n + nrest) ELSE 40

\* row heights and font before the fit check
ClampedSizes(n, H, nrest) ==
    LET d == Max(75, Min(120, IdealRowH(n, H, nrest)))
    IN  [data_row_h |-> d,
         rest_row_h |-> Max(40, Min(60, IdealHalfRowH(n, H, nrest))),
         data_font  |-> Max(44, Min(52, (d * 42) \div 100))]

\* FittedSizes without the re-clamp to the floors
FittedSizes_NoFloor(n, H, nrest) ==
    LET c == ClampedSizes(n, H, nrest)
        total_h == n * c.data_row_h + nrest * c.rest_row_h
    IN  IF total_h > H
        THEN [data_row_h |-> (c.data_row_h * H) \div total_h,
              rest_row_h |-> (c.rest_row_h * H) \div total_h,
              data_font  |-> (c.data_font * H) \div total_h]
        ELSE c

\* FittedSizes with the scale inverted (total_h / avail_height)
FittedSizes_Inverse(n, H, nrest) ==
    LET c == ClampedSizes(n, H, nrest)
        total_h == n * c.data_row_h + nrest * c.rest_row_h
    IN  IF total_h > H
        THEN [data_row_h |-> Max(60, (c.data_row_h * total_h) \div H),
              rest_row_h |-> Max(32, (c.rest_row_h * total_h) \div H),
              data_font  |-> Max(44, (c.data_font * total_h) \div H)]
        ELSE c

\* the fit check: shrink by avail_height / total_h when the rows do not fit
FittedSizes(n, H, nrest) ==
    LET c == ClampedSizes(n, H, nrest)
        total_h == n * c.data_row_h + nrest * c.rest_row_h
    IN  IF total_h > H
        THEN [data_row_h |-> Max(60, (c.data_row_h * H) \div total_h),
              rest_row_h |-> Max(32, (c.rest_row_h * H) \div total_h),
              data_font  |-> Max(44, (c.data_font * H) \div total_h)]
        ELSE c

\* MaxRows dividing by the data row height alone
MaxRows_NoGap(H, sz, show) == Max(1, H \div sz.data_row_h)

MaxRows(H, sz, show) ==
    Max(1, H \div (sz.data_row_h + (IF show THEN sz.rest_row_h ELSE 8)))

\* the whole sizing step for n splits in avail_height H
Sizing(n, H, iv, show) ==
    LET sz == FittedSizes(n, H, n_rest_rows(n, iv, show))
    IN  [data_row_h |-> sz.data_row_h, rest_row_h |-> sz.rest_row_h,
         data_font |-> sz.data_font, max_rows |-> MaxRows(H, sz, show)]

\* draw_rest_row: the advance it returns (8 without content, else 44)
RestRowAdvance(split) ==
    IF Truthy(split.restTime) \/ Truthy(split.restDistance) \/ Truthy(split.heartRateRest)
    THEN 44 ELSE 8

\* the gap the loop adds after an interval row that gets no rest row
RowGap(row_h, font) == Max(4, row_h - font * 2)

\* the last-split test answering no for every row
is_last_interval_in_workout_Never(idx, splits) == FALSE

\* lambda idx: idx == len(splits) - 1, for rows counted from 1
is_last_interval_in_workout(idx, splits) == idx = Len(splits)

\* the vertical advance of one pass of the table loop, for split i (1-based)
RowAdvance(i, splits, iv, show, row_h, rest_h, font) ==
    IF iv /\ show /\ ~is_last_interval_in_workout(i, splits)
    THEN row_h + RestRowAdvance(splits[i]) + rest_h - 44
    ELSE IF iv THEN row_h + RowGap(row_h, font)
    ELSE row_h

TruncationLine(n, maxRows, iv) ==
    LET remaining == n - maxRows
    IN  "+ " \o ToString(remaining) \o " more "
            \o (IF iv THEN "interval" ELSE "split")
            \o (IF remaining # 1 THEN "s" ELSE "")

(***************************************************************************)
(* The render as a state machine                                           *)
(***************************************************************************)

\* build_title, and the classification read before it
BuildTitle ==
    /\ pc = "title"
    /\ intervals' = is_interval(data)
    /\ title' = build_title(data)
    /\ pc' = "stats"
    /\ UNCHANGED <<data, format_key, stats, uniform_rest, show_rest_rows, columns,
                   avail_height, data_row_h, rest_row_h, data_font, max_rows, cy,
                   shown, rest_drawn, trunc, cells, dots,
                   call, service>>

\* get_hero and the 2x2 grid of summary stats
BuildStats ==
    /\ pc = "stats"
    /\ stats' = SummaryStats(data)
    /\ pc' = "table"
    /\ UNCHANGED <<data, format_key, title, uniform_rest, intervals, show_rest_rows,
                   columns, avail_height, data_row_h, rest_row_h, data_font,
                   max_rows, cy, shown, rest_drawn, trunc, cells, dots,
                   call, service>>

\* no splits, or a short workout: no table is laid out
SkipTable ==
    /\ pc = "table"
    /\ data.splits = <<>> \/ is_short_workout(data)
    /\ pc' = "done"
    /\ UNCHANGED <<data, format_key, title, stats, uniform_rest, intervals,
                   show_rest_rows, columns, avail_height, data_row_h, rest_row_h,
                   data_font, max_rows, cy, shown, rest_drawn, trunc, cells, dots,
                   call, service>>

\* section header, rest-row policy, columns, column header, available height
TableSetup ==
    /\ pc = "table"
    /\ data.splits # <<>> /\ ~is_short_workout(data)
    /\ uniform_rest' = has_uniform_rest(data.splits)
    /\ show_rest_rows' = ShowRestRows(intervals, data.splits)
    /\ columns' = get_table_columns(data)
    /\ avail_height' = AvailHeight(format_key, Len(title), Len(stats))
    /\ pc' = "layout"
    /\ UNCHANGED <<data, format_key, title, stats, intervals, data_row_h, rest_row_h,
                   data_font, max_rows, cy, shown, rest_drawn, trunc, cells, dots,
                   call, service>>

\* the slice done in place (del splits[max_rows:]): the caller's list loses
\* the rows that are not drawn
SplitsAfterSlice_InPlace(splits, maxRows) ==
    SubSeq(splits, 1, IF Len(splits) < maxRows THEN Len(splits) ELSE maxRows)

\* the caller's list after show = splits[:max_rows]: the slice is a new
\* list, splits keeps every element
SplitsAfterSlice(splits, maxRows) == splits

\* dynamic sizing: row heights, font and max_rows
ComputeLayout ==
    /\ pc = "layout"
    /\ LET sz == Sizing(Len(data.splits), avail_height, intervals, show_rest_rows)
       IN  /\ data_row_h' = sz.data_row_h
           /\ rest_row_h' = sz.rest_row_h
           /\ data_font' = sz.data_font
           /\ max_rows' = sz.max_rows
           /\ data' = [data EXCEPT !.splits = SplitsAfterSlice(data.splits, sz.max_rows)]
    /\ cy' = 0
    /\ pc' = "rows"
    /\ UNCHANGED <<format_key, title, stats, uniform_rest, intervals,
                   show_rest_rows, columns, avail_height, shown, rest_drawn, trunc, cells, dots,
                   call, service>>

\* ShowCount without the slice: every split is drawn
ShowCount_All(n, maxRows) == n

\* show = splits[:max_rows]
ShowCount(n, maxRows) == Min(n, maxRows)

\* one pass of the table loop: a data row, then its rest row or gap
DrawRow ==
    /\ pc = "rows"
    /\ Len(shown) < ShowCount(Len(data.splits), max_rows)
    /\ LET i == Len(shown) + 1
       IN  /\ shown' = Append(shown, i)
           /\ rest_drawn' = IF intervals /\ show_rest_rows
                                 /\ ~is_last_interval_in_workout(i, data.splits)
                            THEN rest_drawn \cup {i} ELSE rest_drawn
           /\ cells' = Append(cells, RowCells(columns, data.splits[i], data))
           /\ dots' = Append(dots, draw_pace_dot(PaceDev(compute_pace_stats(data.splits), i)))
           /\ cy' = cy + RowAdvance(i, data.splits, intervals, show_rest_rows,
                                    data_row_h, rest_row_h, data_font)
    /\ UNCHANGED <<data, format_key, pc, title, stats, uniform_rest, intervals,
                   show_rest_rows, columns, avail_height, data_row_h, rest_row_h,
                   data_font, max_rows, trunc, call, service>>

\* after the loop: the truncation line, when splits were left out
FinishTable ==
    /\ pc = "rows"
    /\ Len(shown) = ShowCount(Len(data.splits), max_rows)
    /\ trunc' = IF Len(data.splits) > max_rows
                THEN Append(trunc, TruncationLine(Len(data.splits), max_rows, intervals))
                ELSE trunc
    /\ pc' = "done"
    /\ UNCHANGED <<data, format_key, title, stats, uniform_rest, intervals,
                   show_rest_rows, columns, avail_height, data_row_h, rest_row_h,
                   data_font, max_rows, cy, shown, rest_drawn, cells, dots,
                   call, service>>

(***************************************************************************)
(* Inputs                                                                  *)
(***************************************************************************)

\* longest splits list of the workouts rendered from the start
MaxSplits == 5
\* largest split count and largest synthetic height of the sizing runs
MaxN == 20
MaxH == 150

\* a split without the per-split cell values
Split(dist, time, rest, hr) ==
    [distanceM |-> dist, timeSeconds |-> time, restTime |-> rest,
     heartRateRest |-> hr, restDistance |-> None,
     paceTenths |-> None, watts |-> None, strokeRate |-> None, heartRate |-> None]

Copies(n, s) == [k \in 1..n |-> s]

\* a split of a continuous piece with its cell values
CellSplit(dist, time, pace, watts, rate, hr) ==
    [Split(dist, time, None, None) EXCEPT
        !.paceTenths = pace, !.watts = watts, !.strokeRate = rate, !.heartRate = hr]

Workout(wtype, machine, flag, dist, dur, pace, watts, rate, hr, inferred, splits) ==
    [workoutType |-> wtype, rawMachineType |-> "", machineType |-> machine,
     isInterval |-> flag, distanceM |-> dist, durationSeconds |-> dur,
     avgPaceTenths |-> pace, avgWatts |-> watts, strokeRate |-> rate,
     avgHeartRate |-> hr, inferredTitle |-> inferred, splits |-> splits]

\* "" is a missing workoutType; "0" is the numeric code 0; "CustomPiece" is a
\* type the code does not know
WorkoutTypes ==
    {"JustRow", "FixedTimeSplits", "FixedDistanceSplits", "FixedTimeInterval",
     "FixedDistanceInterval", "VariableInterval", "VariableIntervalUndefinedRest",
     "CustomPiece", "", "0"}

BaseSplits ==
    {Split(d, 6600, r, h) : d \in {None, 2000}, r \in {None, 600}, h \in {None, 120}}

\* the first split of a list: as the others, or differing in one field
FirstSplits(b) ==
    {b, [b EXCEPT !.distanceM = 500], [b EXCEPT !.timeSeconds = 3000],
        [b EXCEPT !.timeSeconds = 6604], [b EXCEPT !.restTime = 900]}

\* n splits: first, then copies of b; the last one carries the rest lastRest
SplitsOf(n, b, first, lastRest) ==
    [k \in 1..n |->
        LET s == IF k = 1 THEN first ELSE b
        IN  IF k = n THEN [s EXCEPT !.restTime = lastRest] ELSE s]

SplitLists ==
    UNION {{SplitsOf(n, b, f, lr) : n \in 0..MaxSplits, f \in FirstSplits(b),
                                    lr \in {0, 600}} : b \in BaseSplits}

\* interval-shaped inputs: every workout type over the splits lists
IntervalWorkouts ==
    {Workout(wt, "rower", flag, None, None, None, None, None, None, "", sp) :
        wt \in WorkoutTypes, flag \in BOOLEAN, sp \in SplitLists}

\* seven intervals of 11:00 with 6 s rest, none after the last
SevenIntervals == SplitsOf(7, Split(None, 6600, 60, None), Split(None, 6600, 60, None), 0)

\* table-shaped inputs: one workout type per column set, four splits, the
\* first with each cell value missing, zero or present
CellWorkouts ==
    {Workout(wt, "rower", FALSE, None, None, None, None, None, None, "",
             <<CellSplit(dist, time, pace, watts, rate, hr)>>
                 \o Copies(3, CellSplit(2000, 6600, 955, 250, 28, 150))) :
        wt \in {"FixedTimeInterval", "FixedDistanceSplits", "VariableInterval", "JustRow"},
        dist \in {None, 0, 2000}, time \in {None, 0, 6600}, pace \in {None, 0, 955},
        watts \in {None, 0, 250}, rate \in {None, 0, 28}, hr \in {None, 0, 150}}

\* paces of a split: missing, zero, and values near and far from each other
SplitPaces == {None, 0, 100, 130, 995, 1000, 1005, 1010}

\* pace-shaped inputs: four splits of a continuous piece, each with a pace
PaceWorkouts ==
    {Workout("FixedDistanceSplits", "rower", FALSE, None, None, None, None, None,
             None, "", [k \in 1..4 |-> CellSplit(2000, 4000, ps[k], 250, 28, 150)]) :
        ps \in [1..4 -> SplitPaces]}

\* summary-shaped inputs with each record-level number missing, zero or present
ZeroSummaries ==
    {Workout(wt, "rower", FALSE, dist, dur, pace, watts, rate, hr, "", << >>) :
        wt \in {"JustRow", "FixedTimeInterval"},
        dist \in {None, 0, 2000}, dur \in {None, 0, 3821}, pace \in {None, 0, 955},
        watts \in {None, 0, 250}, rate \in {None, 0, 28}, hr \in {None, 0, 150}}

\* raw machine type, machine type
Machines == {<<"", "">>, <<"", "bike">>, <<"Bike", "rower">>}

\* summary-shaped inputs: every combination of the record-level fields
SummaryWorkouts ==
    {[Workout(wt, m[2], flag, dist, dur, pw[1], pw[2], rh[1], rh[2], inf, sp)
        EXCEPT !.rawMachineType = m[1]] :
        wt \in WorkoutTypes, m \in Machines, flag \in BOOLEAN,
        dist \in {None, 2000, 2500}, dur \in {None, 3821},
        pw \in {<<None, None>>, <<955, None>>, <<955, 250>>},
        rh \in {<<None, None>>, <<28, 150>>},
        inf \in {"", "4x500m"}, sp \in {<< >>, SevenIntervals}}

\* inferred titles of 23 and 28 characters
LongTitles == {"4x1000m steady, 2' rest", "pyramid 250-500-750-500-250m"}

\* header-shaped inputs: a long title over one or four summary stats, with
\* a table of four splits
TitledWorkouts ==
    {Workout("JustRow", "rower", FALSE, None, None, s[1], s[2], s[3], s[4], inf,
             Copies(4, CellSplit(500, 1000, 1000, 250, 28, 150))) :
        s \in {<<None, None, None, None>>, <<1000, 250, 28, 150>>},
        inf \in LongTitles}

Inputs ==
    (IntervalWorkouts \X {"1:1"})
        \cup (TitledWorkouts \X {"1:1", "9:16"})
        \cup (SummaryWorkouts \X {"1:1"})
        \cup ((CellWorkouts \cup ZeroSummaries \cup PaceWorkouts) \X {"1:1"})
        \cup ({w \in SummaryWorkouts : w.splits # << >>} \X {"9:16"})

\* no request is being served
Idle == reqs = << >> /\ rng = <<0, 0>>

Blank ==
    /\ title = ""
    /\ stats = << >>
    /\ uniform_rest = <<TRUE, None>>
    /\ intervals = FALSE
    /\ show_rest_rows = FALSE
    /\ columns = << >>
    /\ avail_height = 0
    /\ data_row_h = 0 /\ rest_row_h = 0 /\ data_font = 0 /\ max_rows = 0
    /\ cy = 0
    /\ shown = << >>
    /\ rest_drawn = {}
    /\ trunc = << >>
    /\ cells = << >>
    /\ dots = << >>

\* a render request for the erg_summary_alt card
Init ==
    /\ \E in \in Inputs : data = in[1] /\ format_key = in[2]
    /\ pc = "title"
    /\ Blank
    /\ arg = None /\ result = ""
    /\ Idle

Next ==
    \/ BuildTitle
    \/ BuildStats
    \/ SkipTable
    \/ TableSetup
    \/ ComputeLayout
    \/ DrawRow
    \/ FinishTable

Spec == Init /\ [][Next]_vars

(***************************************************************************)
(* The sizing step taken alone, over a range of available heights          *)
(***************************************************************************)

\* the heights the header section can leave to the table
AvailHeights ==
    {AvailHeight(f, len, k) : f \in {"1:1", "9:16"}, len \in {12, 18, 24, 25},
                              k \in {1, 4}}

Heights == AvailHeights \cup (1..MaxH)

\* n splits per rest-row policy: continuous; intervals with a uniform rest;
\* intervals with recovery heart rate; intervals with uneven rests and
\* no rest data from the third split on
LayoutSplits(n) ==
    { <<"FixedDistanceSplits", Copies(n, Split(2000, 6600, None, None))>>,
      <<"FixedTimeInterval", Copies(n, Split(2000, 6600, 600, None))>>,
      <<"FixedTimeInterval", Copies(n, Split(2000, 6600, 600, 120))>>,
      <<"FixedTimeInterval",
        [k \in 1..n |-> Split(2000, 6600,
                              IF k = 1 THEN 600 ELSE IF k = 2 THEN 900 ELSE None,
                              None)]>> }

InitLayout ==
    /\ \E n \in 1..MaxN : \E ws \in LayoutSplits(n) :
          data = Workout(ws[1], "rower", FALSE, None, None, None, None, None, None,
                         "", ws[2])
    /\ format_key = "1:1"
    /\ avail_height \in Heights
    /\ pc = "layout"
    /\ title = build_title(data)
    /\ stats = SummaryStats(data)
    /\ intervals = is_interval(data)
    /\ uniform_rest = has_uniform_rest(data.splits)
    /\ show_rest_rows = ShowRestRows(intervals, data.splits)
    /\ columns = get_table_columns(data)
    /\ data_row_h = 0 /\ rest_row_h = 0 /\ data_font = 0 /\ max_rows = 0
    /\ cy = 0
    /\ shown = << >>
    /\ rest_drawn = {}
    /\ trunc = << >>
    /\ cells = << >>
    /\ dots = << >>
    /\ arg = None /\ result = ""
    /\ Idle

NextLayout ==
    \/ ComputeLayout
    \/ DrawRow
    \/ FinishTable

SpecLayout == InitLayout /\ [][NextLayout]_vars

\* the sizing step over the heights the header section can leave
InitAvail == InitLayout /\ avail_height \in AvailHeights

SpecAvail == InitAvail /\ [][NextLayout]_vars

(***************************************************************************)
(* The formatters called on their own                                      *)
(***************************************************************************)

\* longest duration, in hundredths of a second, and slowest pace, in tenths
\* of a second per 500 m, of the ranges the formatters are called on
MaxCentis == 6100
MaxPace == 2000

\* every duration up to MaxCentis that is not on a rounding tie, then 2:05,
\* 10:00, 1:02:05.4 and a duration just under 1:01:00
Durations ==
    {None} \cup {c \in 0..MaxCentis : c % 10 # 5} \cup {12500, 60000, 372540, 365996}

Paces == {None} \cup (0..MaxPace)

\* records that differ in the machine only
MachineRecords ==
    {[Workout("JustRow", m[2], FALSE, None, None, None, None, None, None, "", << >>)
        EXCEPT !.rawMachineType = m[1]] : m \in Machines \cup {<<"", "skierg">>}}

InitFormat ==
    /\ pc \in {"format_time_clean", "format_pace"}
    /\ arg \in (IF pc = "format_time_clean" THEN Durations ELSE Paces)
    /\ data \in MachineRecords
    /\ format_key = "1:1"
    /\ result = ""
    /\ Blank
    /\ Idle

\* format_time_clean(arg / 100)
CallFormatTimeClean ==
    /\ pc = "format_time_clean"
    /\ result' = format_time_clean_centis(arg)
    /\ pc' = "returned_time"
    /\ UNCHANGED <<data, format_key, title, stats, uniform_rest, intervals,
                   show_rest_rows, columns, avail_height, data_row_h, rest_row_h,
                   data_font, max_rows, cy, shown, rest_drawn, trunc, cells, dots,
                   arg, service>>

\* format_pace(arg, data)
CallFormatPace ==
    /\ pc = "format_pace"
    /\ result' = format_pace(arg, data)
    /\ pc' = "returned_pace"
    /\ UNCHANGED <<data, format_key, title, stats, uniform_rest, intervals,
                   show_rest_rows, columns, avail_height, data_row_h, rest_row_h,
                   data_font, max_rows, cy, shown, rest_drawn, trunc, cells, dots,
                   arg, service>>

NextFormat ==
    \/ CallFormatTimeClean
    \/ CallFormatPace

SpecFormat == InitFormat /\ [][NextFormat]_vars

(***************************************************************************)
(* The classification predicates called on their own                       *)
(***************************************************************************)

\* the known types, and names that differ from them in case, in a letter or
\* in what surrounds the word "interval"
ClassTypes ==
    WorkoutTypes \cup
        {"fixedtimeinterval", "FIXEDDISTANCEINTERVAL", "Intervals", "interval",
         "Interva", "FixedTimeSplit", "fixedtimesplits", "FixedDistanceSplitsX",
         "FixedTime", "fixeddistanceinterval"}

ClassRecords ==
    {Workout(wt, "rower", flag, None, None, None, None, None, None, "", << >>) :
        wt \in ClassTypes, flag \in BOOLEAN}

\* str(bool)
Bool(b) == IF b THEN "True" ELSE "False"

InitClassify ==
    /\ pc \in {"is_interval", "is_fixed_time_type", "is_fixed_dist_type"}
    /\ data \in ClassRecords
    /\ format_key = "1:1"
    /\ arg = None /\ result = ""
    /\ Blank
    /\ Idle

CallIsInterval ==
    /\ pc = "is_interval"
    /\ result' = Bool(is_interval(data))
    /\ pc' = "returned_is_interval"
    /\ UNCHANGED <<data, format_key, title, stats, uniform_rest, intervals,
                   show_rest_rows, columns, avail_height, data_row_h, rest_row_h,
                   data_font, max_rows, cy, shown, rest_drawn, trunc, cells, dots,
                   arg, service>>

CallIsFixedTimeType ==
    /\ pc = "is_fixed_time_type"
    /\ result' = Bool(is_fixed_time_type(data))
    /\ pc' = "returned_is_fixed_time_type"
    /\ UNCHANGED <<data, format_key, title, stats, uniform_rest, intervals,
                   show_rest_rows, columns, avail_height, data_row_h, rest_row_h,
                   data_font, max_rows, cy, shown, rest_drawn, trunc, cells, dots,
                   arg, service>>

CallIsFixedDistType ==
    /\ pc = "is_fixed_dist_type"
    /\ result' = Bool(is_fixed_dist_type(data))
    /\ pc' = "returned_is_fixed_dist_type"
    /\ UNCHANGED <<data, format_key, title, stats, uniform_rest, intervals,
                   show_rest_rows, columns, avail_height, data_row_h, rest_row_h,
                   data_font, max_rows, cy, shown, rest_drawn, trunc, cells, dots,
                   arg, service>>

NextClassify ==
    \/ CallIsInterval
    \/ CallIsFixedTimeType
    \/ CallIsFixedDistType

SpecClassify == InitClassify /\ [][NextClassify]_vars

(***************************************************************************)
(* The service: generate_card and the renderers it calls                   *)
(***************************************************************************)

\* the card types of the renderer registry
CARD_RENDERERS ==
    {"test", "erg_summary", "erg_summary_alt", "regatta_result", "regatta_summary",
     "season_recap", "team_leaderboard"}

\* the keys of the dimensions table of app.py
DIMENSIONS == {"1:1", "9:16"}

\* JSON values that are not strings: a key that is missing, null, and an
\* array (which Python cannot hash)
Missing == "<missing>"
Null == "<null>"
List == "<list>"

\* the response decided before any renderer is called: 400 for a request
\* the code turns down, 500 when a check raises (caught by the handler's
\* except clause), 0 when the renderer is to be called
Validate(body) ==
    IF body.kind \in {"none", "empty"} THEN 400
    ELSE IF body.kind = "array" THEN 500
    ELSE LET card_type == body.cardType
             fmt == IF body.format = Missing THEN "1:1" ELSE body.format
         IN  IF card_type \in {Missing, Null, ""} THEN 400
             ELSE IF fmt = List THEN 500
             ELSE IF fmt \notin DIMENSIONS THEN 400
             ELSE IF card_type = List THEN 500
             ELSE IF card_type \notin CARD_RENDERERS THEN 400
             ELSE 0

\* the keys render_erg_summary reads with workout_data[key]
ErgKeys(wd) ==
    {"title", "date", "type", "avg_watts", "avg_heart_rate", "avg_stroke_rate",
     "distance_m", "duration_seconds", "splits"}
        \cup {IF Contains(Lower(wd.type), "2k") \/ Contains(Lower(wd.type), "test")
              THEN "total_time" ELSE "avg_pace"}

\* what the decision layer of render_erg_summary_alt puts on the card
AltLayout(fmt, d) ==
    [title |-> build_title(d),
     stats |-> SummaryStats(d),
     columns |-> IF d.splits = << >> \/ is_short_workout(d) THEN << >>
                 ELSE get_table_columns(d),
     rows |-> IF d.splits = << >> \/ is_short_workout(d) THEN 0
              ELSE LET iv == is_interval(d)
                       show == ShowRestRows(iv, d.splits)
                       H == AvailHeight(fmt, Len(build_title(d)), Len(SummaryStats(d)))
                   IN  ShowCount(Len(d.splits), Sizing(Len(d.splits), H, iv, show).max_rows)]

\* renderer(format_key, workout_data, options) up to the grain texture:
\* whether it raised, and what it laid out
CallRenderer(card_type, fmt, wd) ==
    CASE card_type = "erg_summary" ->
           IF ErgKeys(wd) \subseteq wd.keys
           THEN [raised |-> FALSE, layout |-> <<"erg_summary", fmt, wd.keys>>]
           ELSE [raised |-> TRUE, layout |-> << >>]
      [] card_type = "erg_summary_alt" ->
           [raised |-> FALSE, layout |-> AltLayout(fmt, wd.fields)]
      [] card_type = "test" -> [raised |-> FALSE, layout |-> <<"test", fmt>>]

\* requests served at once, numbers the grain texture draws per card, and
\* last seed of the generator
NumRequests == 2
GrainCells == 2
MaxSeed == 1

Requests == 1..NumRequests

\* a workout record as the two erg summary renderers read it: the keys of
\* the first design that are present, its type, and the fields of the second
WorkoutData(keys, type, fields) == [keys |-> keys, type |-> type, fields |-> fields]

\* every field missing
EmptyFields == Workout("", "", FALSE, None, None, None, None, None, None, "", << >>)

AllErgKeys ==
    {"title", "date", "type", "total_time", "avg_pace", "avg_watts", "avg_heart_rate",
     "avg_stroke_rate", "distance_m", "duration_seconds", "splits"}

WorkoutDatas ==
    {WorkoutData({}, "", EmptyFields),
     WorkoutData(AllErgKeys, "steady state", EmptyFields),
     WorkoutData(AllErgKeys \ {"title"}, "steady state", EmptyFields),
     WorkoutData(AllErgKeys \ {"total_time"}, "2k test", EmptyFields),
     WorkoutData({}, "",
                 Workout("FixedTimeInterval", "bike", FALSE, None, None, 955, 250, 28,
                         150, "", SevenIntervals))}

Body(kind, card_type, fmt, wd) ==
    [kind |-> kind, cardType |-> card_type, format |-> fmt, workoutData |-> wd]

\* request bodies: not an object; an object without a usable card type; an
\* object naming a renderer, over the formats and the workout records
Bodies ==
    {Body(k, Missing, Missing, WorkoutData({}, "", EmptyFields)) :
        k \in {"none", "empty", "array"}}
    \cup {Body("object", c, f, WorkoutData({}, "", EmptyFields)) :
            c \in {Missing, "", "workout-summary", List, "test"},
            f \in {Missing, "9:16", "4:5", Null, List}}
    \cup {Body("object", c, f, wd) :
            c \in {"erg_summary", "erg_summary_alt"},
            f \in {Missing, "9:16", "4:5", List}, wd \in WorkoutDatas}

\* a request as received: no response sent, no renderer called
Request(body) ==
    [body |-> body, pc |-> "received", status |-> 0, called |-> "", calls |-> 0,
     layout |-> << >>, noise |-> << >>, sent |-> << >>]

InitService ==
    /\ reqs \in [Requests -> {Request(b) : b \in Bodies}]
    /\ \E seed \in 0..MaxSeed : rng = <<seed, 0>>
    /\ data = EmptyFields
    /\ format_key = "1:1"
    /\ pc = "serve"
    /\ Blank
    /\ arg = None /\ result = ""

\* an exception that escapes the handler: no response is sent
ExceptResponses_Escapes(raised) == << >>

\* except Exception: the responses the handler sends for an exception
\* raised inside the try block
ExceptResponses(raised) == IF raised THEN <<500>> ELSE << >>

\* everything but the service
render == <<data, format_key, pc, title, stats, uniform_rest, intervals,
            show_rest_rows, columns, avail_height, data_row_h, rest_row_h,
            data_font, max_rows, cy, shown, rest_drawn, trunc, cells, dots, call>>

\* generate_card up to the renderer lookup
ValidateRequest(r) ==
    /\ reqs[r].pc = "received"
    /\ LET v == Validate(reqs[r].body)
       IN  reqs' = [reqs EXCEPT ![r].pc = IF v = 0 THEN "render" ELSE "responded",
                                ![r].status = v,
                                ![r].sent = IF v = 0 THEN @
                                            ELSE IF v = 400 THEN Append(@, 400)
                                            ELSE @ \o ExceptResponses(TRUE)]
    /\ UNCHANGED <<rng, render>>

\* png_bytes = renderer(format_key, workout_data, options), up to the grain
Render(r) ==
    /\ reqs[r].pc = "render"
    /\ LET b == reqs[r].body
           fmt == IF b.format = Missing THEN "1:1" ELSE b.format
           out == CallRenderer(b.cardType, fmt, b.workoutData)
       IN  reqs' = [reqs EXCEPT ![r].called = b.cardType,
                                ![r].calls = @ + 1,
                                ![r].layout = out.layout,
                                ![r].pc = IF out.raised THEN "responded" ELSE "grain",
                                ![r].status = IF out.raised THEN 500 ELSE 0,
                                ![r].sent = @ \o ExceptResponses(out.raised)]
    /\ UNCHANGED <<rng, render>>

\* draw_grain_texture: one cell of noise, drawn from the shared generator
Grain(r) ==
    /\ reqs[r].pc = "grain"
    /\ Len(reqs[r].noise) < GrainCells
    /\ reqs' = [reqs EXCEPT ![r].noise = Append(@, rng)]
    /\ rng' = <<rng[1], rng[2] + 1>>
    /\ UNCHANGED render

\* the renderer returns and the PNG is sent
Respond(r) ==
    /\ reqs[r].pc = "grain"
    /\ Len(reqs[r].noise) = GrainCells
    /\ reqs' = [reqs EXCEPT ![r].pc = "responded", ![r].status = 200,
                            ![r].sent = Append(@, 200)]
    /\ UNCHANGED <<rng, render>>

NextService ==
    \/ \E r \in Requests : ValidateRequest(r)
    \/ \E r \in Requests : Render(r)
    \/ \E r \in Requests : Grain(r)
    \/ \E r \in Requests : Respond(r)

SpecService == InitService /\ [][NextService]_vars

\* the steps of one request
Handle(r) == ValidateRequest(r) \/ Render(r) \/ Grain(r) \/ Respond(r)

\* one body for each way through the handler: no body, a body that is not
\* an object, an unknown card type, an unsupported format, a card whose
\* renderer returns (the test card) and one whose renderer raises (the erg
\* summary of a workout with no fields)
HandlerBodies ==
    {Body("none", Missing, Missing, WorkoutData({}, "", EmptyFields)),
     Body("array", Missing, Missing, WorkoutData({}, "", EmptyFields)),
     Body("object", "workout-summary", Missing, WorkoutData({}, "", EmptyFields)),
     Body("object", "test", "4:5", WorkoutData({}, "", EmptyFields)),
     Body("object", "test", "9:16", WorkoutData({}, "", EmptyFields)),
     Body("object", "erg_summary", "9:16", WorkoutData({}, "", EmptyFields))}

InitHandler ==
    /\ InitService
    /\ \A r \in Requests : reqs[r].body \in HandlerBodies

\* the server keeps running every request it has accepted
SpecServiceFair ==
    InitHandler /\ [][NextService]_vars /\ \A r \in Requests : WF_vars(Handle(r))

(***************************************************************************)
(* Properties of the table layout                                          *)
(***************************************************************************)

Sized == pc \in {"rows", "done"} /\ max_rows > 0

NSplits == Len(data.splits)

\* the sizing step for one more split, same height and rest-row policy
SizingNext == Sizing(NSplits + 1, avail_height, intervals, show_rest_rows)

C2_RowsFit == Sized => cy <= avail_height

\* C3: the table renders exactly the first max_rows splits in their order;
\* when n > max_rows exactly one truncation line is drawn, announcing
\* n - (rows shown) splits, with the singular word for one; when
\* n <= max_rows every split is rendered and no truncation line is drawn.
C3_Truncation ==
    /\ Sized => /\ shown = [k \in 1..Len(shown) |-> k]
                /\ Len(shown) <= max_rows
    /\ (Sized /\ pc = "done") =>
        LET omitted == NSplits - Len(shown)
            word == IF intervals THEN "interval" ELSE "split"
        IN  /\ NSplits > max_rows =>
                /\ Len(shown) = max_rows
                /\ omitted = NSplits - max_rows
                /\ trunc = << "+ " \o ToString(omitted) \o " more " \o word
                                \o (IF omitted = 1 THEN "" ELSE "s") >>
            /\ NSplits <= max_rows => (Len(shown) = NSplits /\ trunc = << >>)

\* a table cut short by exactly one split
C3_Witness ==
    /\ Sized /\ pc = "done"
    /\ NSplits = max_rows + 1
    /\ Len(shown) = max_rows
    /\ trunc = << "+ 1 more interval" >>

\* C4: for a fixed available height and rest-row policy, data_row_h,
\* rest_row_h and data_font never increase as the split count grows.
C4_Monotone ==
    Sized =>
        /\ SizingNext.data_row_h <= data_row_h
        /\ SizingNext.rest_row_h <= rest_row_h
        /\ SizingNext.data_font <= data_font

\* one more split shrinks the rows and the font
C4_Witness ==
    /\ Sized
    /\ SizingNext.data_row_h < data_row_h
    /\ SizingNext.rest_row_h < rest_row_h
    /\ SizingNext.data_font < data_font

\* C5 as claimed: once n * 60 > H, a larger n never increases max_rows, and
\* for large n (the largest split count of the model) max_rows = H div 60.
C5_LimitIsHOverMinRow ==
    (Sized /\ NSplits * 60 > avail_height) =>
        /\ SizingNext.max_rows <= max_rows
        /\ NSplits >= MaxN => max_rows = avail_height \div 60

\* C5, amended: once n * 60 > H, a larger n never increases max_rows, and
\* max_rows = max(1, H div (60 + g)), g being the rest-row floor 32 when rest
\* rows are shown and the 8 px gap otherwise.
C5_LimitIsHOverRowPlusGap ==
    (Sized /\ NSplits * 60 > avail_height) =>
        /\ SizingNext.max_rows <= max_rows
        /\ max_rows = Max(1, avail_height \div (60 + (IF show_rest_rows THEN 32 ELSE 8)))

\* more splits than fit at the floor, several rows fitting, with rest rows
C5_Witness ==
    /\ Sized
    /\ NSplits * 60 > avail_height
    /\ show_rest_rows
    /\ max_rows >= 2
    /\ max_rows = avail_height \div 92
    /\ max_rows < avail_height \div 60

(***************************************************************************)
(* Properties of the title, the hero metric and the columns                *)
(***************************************************************************)

Titled == pc # "title"

HasStats == pc \notin {"title", "stats"}

HasColumns == pc \in {"layout", "rows", "done"} /\ columns # << >>

\* the record with the rest of its last split replaced
WithLastRest(d, r) == [d EXCEPT !.splits[Len(d.splits)].restTime = r]

\* every split but the last carries the same nonzero rest
OthersRestUniform(sp) ==
    \A k \in 1..(Len(sp) - 1) : Truthy(sp[k].restTime) /\ sp[k].restTime = sp[1].restTime

\* C6: for every interval workout with n >= 1 splits whose other splits all
\* carry the same nonzero restTime, giving the last split alone a nonzero
\* restTime changes neither has_uniform_rest nor the rest suffix of the title.
C6_RestExclusion ==
    (/\ Titled /\ intervals
     /\ NSplits >= 1
     /\ ~Truthy(data.splits[NSplits].restTime)
     /\ OthersRestUniform(data.splits)) =>
        \A r \in {60, 600, 900} :
            LET d2 == WithLastRest(data, r)
            IN  /\ has_uniform_rest(d2.splits) = has_uniform_rest(data.splits)
                /\ _rest_label(d2.splits, FALSE) = _rest_label(data.splits, FALSE)
                /\ build_title(d2) = title

\* the workout types whose name contains "interval"
IntervalTypes ==
    {"FixedTimeInterval", "FixedDistanceInterval", "VariableInterval",
     "VariableIntervalUndefinedRest"}

VariableTypes == {"VariableInterval", "VariableIntervalUndefinedRest"}

IntervalWorkout(d) == d.isInterval \/ d.workoutType \in IntervalTypes

PaceUnit(d) == IF is_bike(d) THEN "/1000m" ELSE "/500m"

\* C7: get_hero evaluates four rules top to bottom, first match wins:
\* (1) not interval and distanceM a test distance -> total time, "TOTAL TIME";
\* (2) FixedTimeInterval on a bike with known avgWatts -> "AVG WATTS";
\* (3) any other interval -> average pace, "AVG SPLIT <unit>";
\* (4) otherwise -> average pace, "AVG PACE <unit>";
\* so an interval workout never gets "TOTAL TIME".
C7_HeroRules ==
    HasStats =>
        LET d == data
            hero == stats[1]
            r1 == ~IntervalWorkout(d) /\ d.distanceM \in {500, 1000, 2000, 5000, 6000}
            r2 == d.workoutType = "FixedTimeInterval" /\ is_bike(d) /\ Truthy(d.avgWatts)
            r3 == IntervalWorkout(d)
            pace == format_pace(d.avgPaceTenths, d)
        IN  /\ r1 => hero = <<format_time_clean(d.durationSeconds), "TOTAL TIME">>
            /\ (~r1 /\ r2) => hero = <<ToString(d.avgWatts), "AVG WATTS">>
            /\ (~r1 /\ ~r2 /\ r3) => hero = <<pace, "AVG SPLIT " \o PaceUnit(d)>>
            /\ (~r1 /\ ~r2 /\ ~r3) => hero = <<pace, "AVG PACE " \o PaceUnit(d)>>
            /\ IntervalWorkout(d) => hero[2] # "TOTAL TIME"

\* an interval workout over a test distance headlines its average split
C7_Witness ==
    /\ HasStats
    /\ IntervalWorkout(data)
    /\ data.distanceM = 2000
    /\ Truthy(data.durationSeconds)
    /\ stats[1] = <<"1:35.5", "AVG SPLIT /500m">>

\* the documented decision order of build_title, case by case
DocumentedTitle(d, t) ==
    LET wt == d.workoutType
        sp == d.splits
        n == ToString(Len(sp))
        interval == IntervalWorkout(d) /\ sp # << >>
        continuous == ~IntervalWorkout(d)
        dists == Truthies(Field(sp, "distanceM"))
        times == Truthies(Field(sp, "timeSeconds"))
        uniD == dists # << >> /\ AllSame(dists)
        uniT == times # << >> /\ AllSame(IntSeconds(times))
        fdi == wt = "FixedDistanceInterval" /\ uniD
        fti == wt = "FixedTimeInterval" /\ uniT
        var == wt \in VariableTypes
    IN  /\ (interval /\ fdi) =>
              t = n \o "x" \o format_distance(dists[1]) \o _rest_label(sp, FALSE)
        /\ (interval /\ fti) =>
              t = n \o "x" \o format_time_coach(times[1]) \o _rest_label(sp, FALSE)
        /\ (interval /\ var /\ uniD) =>
              t = n \o "x" \o format_distance(dists[1]) \o _rest_label(sp, TRUE)
        /\ (interval /\ var /\ ~uniD) => t = n \o " pieces"
        /\ (interval /\ ~fdi /\ ~fti /\ ~var) =>
              t = n \o " intervals" \o _rest_label(sp, FALSE)
        /\ (continuous /\ wt = "FixedTimeSplits") => t = format_time_coach(d.durationSeconds)
        /\ (continuous /\ wt = "FixedDistanceSplits") => t = format_distance(d.distanceM)
        /\ (continuous /\ wt \notin {"FixedTimeSplits", "FixedDistanceSplits"}) =>
              t = IF Truthy(d.distanceM) THEN format_distance(d.distanceM)
                  ELSE IF Truthy(d.durationSeconds)
                       THEN format_time_coach(d.durationSeconds)
                  ELSE machine_label(d)

\* C8 as claimed: build_title follows the documented decision order, first
\* match winning, and nothing is evaluated before it.
C8_DocumentedOrderOnly == Titled => DocumentedTitle(data, title)

\* C8, amended: a JustRow workout (workoutType "JustRow" or 0) carrying an
\* inferred title gets that title before any other rule; every other
\* workout follows the documented decision order.
C8_InferredTitleFirst ==
    Titled =>
        IF data.workoutType \in {"JustRow", "0"} /\ data.inferredTitle # ""
        THEN title = data.inferredTitle
        ELSE DocumentedTitle(data, title)

\* an inferred title wins over the total distance of a JustRow piece
C8_Witness ==
    /\ Titled
    /\ data.workoutType = "JustRow"
    /\ data.distanceM = 2500
    /\ data.inferredTitle = "4x500m"
    /\ title = "4x500m"

\* FixedDistanceInterval, 5 splits of 2000 m, rest 600 on all but the last
FiveByTwoK ==
    /\ data.workoutType = "FixedDistanceInterval"
    /\ NSplits = 5
    /\ \A k \in 1..5 : data.splits[k].distanceM = 2000
    /\ \A k \in 1..4 : data.splits[k].restTime = 600

\* C9 as claimed: the title of that workout is "5x2K / 1:00r".
C9_TitleClockRest == (Titled /\ FiveByTwoK) => title = "5x2K / 1:00r"

\* C9, amended: the title of that workout is "5x2K / 1'r", the rest in the
\* coach style of format_rest_coach.
C9_TitleCoachRest == (Titled /\ FiveByTwoK) => title = "5x2K / 1'r"

C9_Witness == Titled /\ FiveByTwoK /\ title = "5x2K / 1'r"

\* FixedTimeInterval on a bike, 7 splits of 660 s, rest 60 on all but the
\* last (0), avgWatts present, the table laid out
SevenByEleven ==
    /\ HasColumns
    /\ data.workoutType = "FixedTimeInterval"
    /\ is_bike(data)
    /\ NSplits = 7
    /\ \A k \in 1..7 : data.splits[k].timeSeconds = 6600
    /\ \A k \in 1..6 : data.splits[k].restTime = 60
    /\ data.splits[7].restTime = 0
    /\ Truthy(data.avgWatts)

Headers == [k \in 1..Len(columns) |-> columns[k].header]

\* C10 as claimed: title "7x11'/1'r", hero label "AVG WATTS", columns
\* DIST, PACE (/1Km), WATTS, RPM, HR in that order.
C10_ScenarioAsClaimed ==
    SevenByEleven =>
        /\ title = "7x11'/1'r"
        /\ stats[1][2] = "AVG WATTS"
        /\ Headers = <<"DIST", "PACE (/1Km)", "WATTS", "RPM", "HR">>

\* C10, amended: the title is 7x11' / 6"r (a restTime of 60 tenths is six
\* seconds, and the rest is set off by " / "); hero label and columns as
\* claimed.
C10_ScenarioCoachTitle ==
    SevenByEleven =>
        /\ title = "7x11' / 6\"r"
        /\ stats[1][2] = "AVG WATTS"
        /\ Headers = <<"DIST", "PACE (/1Km)", "WATTS", "RPM", "HR">>

C10_Witness ==
    /\ SevenByEleven
    /\ title = "7x11' / 6\"r"
    /\ stats[1] = <<"250", "AVG WATTS">>
    /\ Len(columns) = 5

\* the keys, headers and alignments of the laid out columns
Keys == [k \in 1..Len(columns) |-> columns[k].key]

Aligns == [k \in 1..Len(columns) |-> columns[k].align]

FixedTimeTypes == {"FixedTimeSplits", "FixedTimeInterval"}

FixedDistTypes == {"FixedDistanceSplits", "FixedDistanceInterval"}

\* C11: the columns are one of four fixed ordered sets chosen by workout
\* type (fixed time: DIST PACE WATTS RATE HR; fixed distance: TIME PACE WATTS
\* RATE HR; variable: DIST TIME PACE WATTS RATE HR; anything else, unknown
\* types included: PACE WATTS RATE HR); WATTS, RATE and HR are right-aligned
\* and the others left-aligned; the PACE header carries the machine's pace
\* unit and the RATE header is RPM for a bike and SPM otherwise.
C11_ColumnSets ==
    HasColumns =>
        LET wt == data.workoutType
            pace == IF is_bike(data) THEN "PACE (/1Km)" ELSE "PACE (/500m)"
            rate == IF is_bike(data) THEN "RPM" ELSE "SPM"
            tailKeys == <<"pace", "watts", "rate", "hr">>
            tailHdrs == <<pace, "WATTS", rate, "HR">>
            tailAl == <<"left", "right", "right", "right">>
        IN  CASE wt \in FixedTimeTypes ->
                   /\ Keys = <<"dist">> \o tailKeys
                   /\ Headers = <<"DIST">> \o tailHdrs
                   /\ Aligns = <<"left">> \o tailAl
              [] wt \in FixedDistTypes ->
                   /\ Keys = <<"time">> \o tailKeys
                   /\ Headers = <<"TIME">> \o tailHdrs
                   /\ Aligns = <<"left">> \o tailAl
              [] wt \in VariableTypes ->
                   /\ Keys = <<"dist", "time">> \o tailKeys
                   /\ Headers = <<"DIST", "TIME">> \o tailHdrs
                   /\ Aligns = <<"left", "left">> \o tailAl
              [] OTHER ->
                   /\ Keys = tailKeys
                   /\ Headers = tailHdrs
                   /\ Aligns = tailAl

\* the table of a workout of an unknown type, laid out with the generic set
C11_Witness ==
    /\ HasColumns
    /\ data.workoutType = "CustomPiece"
    /\ Keys = <<"pace", "watts", "rate", "hr">>

\* the split field a column shows
CellField(key, s) ==
    CASE key = "dist" -> s.distanceM
      [] key = "time" -> s.timeSeconds
      [] key = "pace" -> s.paceTenths
      [] key = "watts" -> s.watts
      [] key = "rate" -> s.strokeRate
      [] key = "hr" -> s.heartRate

\* C12: absent values are handled uniformly: no summary stat and no table
\* cell is ever blank or a bare "0", and a cell whose field is 0, null or
\* missing shows the placeholder "--" or "--:--".
C12_AbsentUniform ==
    /\ HasStats => \A k \in 1..Len(stats) : stats[k][1] \notin {"", "0"}
    /\ \A r \in 1..Len(cells) : \A c \in 1..Len(cells[r]) :
          LET v == CellField(columns[c].key, data.splits[shown[r]])
          IN  /\ cells[r][c] \notin {"", "0"}
              /\ ~Truthy(v) => cells[r][c] \in {"--", "--:--"}

\* a digit string of the given kind
Digits(lo, hi) == {ToString(k) : k \in lo..hi}

TwoDigits(lo, hi) == {Pad2(k) : k \in lo..hi}

\* the shapes a formatted duration may take: minutes, a seconds field in
\* 00..59, and a tenths digit only when it is not zero
TimeTails ==
    {ss \o t : ss \in TwoDigits(0, 59), t \in {""} \cup {"." \o x : x \in Digits(1, 9)}}

TimeShapes(withHours) ==
    IF withHours
    THEN {h \o ":" \o mm \o ":" \o tl :
              h \in Digits(1, 9), mm \in TwoDigits(0, 59), tl \in TimeTails}
    ELSE {m \o ":" \o tl : m \in Digits(0, 59), tl \in TimeTails}

\* C13: format_time_clean of a positive duration, taken at hundredths of a
\* second, shows hours only from 3600 s on, a two-digit seconds field within
\* 00..59 and a tenths digit only when that digit is not zero (never a
\* trailing ".0"); 125.0 gives "2:05", 600 gives "10:00", 3725.4 gives
\* "1:02:05.4"; a falsy input gives "--:--".
C13_TimeClean ==
    pc = "returned_time" =>
        /\ Truthy(arg) => result \in TimeShapes(arg >= 360000)
        /\ ~Truthy(arg) => result = "--:--"
        /\ arg = 12500 => result = "2:05"
        /\ arg = 60000 => result = "10:00"
        /\ arg = 372540 => result = "1:02:05.4"

\* a rower's record
RowerRecord ==
    Workout("JustRow", "rower", FALSE, None, None, None, None, None, None, "", << >>)

\* M:SS.t with the seconds below 60
PaceShapes ==
    {m \o ":" \o ss \o "." \o t :
        m \in Digits(0, 9), ss \in TwoDigits(0, 59), t \in Digits(0, 9)}

\* C14: format_pace doubles the canonical value for a bike and only for a
\* bike: for a positive p, format_pace(p, bike) = format_pace(2p, rower) and
\* every other machine formats p itself; the result is M:SS.t with seconds
\* below 60; 600 gives "1:00.0" on a rower and "2:00.0" on a bike; a falsy
\* input gives "--:--" on every machine.
C14_PaceDoubling ==
    pc = "returned_pace" =>
        /\ ~Truthy(arg) => result = "--:--"
        /\ Truthy(arg) =>
              /\ result \in PaceShapes
              /\ is_bike(data) => result = format_pace(2 * arg, RowerRecord)
              /\ is_bike(data) => result # format_pace(arg, RowerRecord)
              /\ ~is_bike(data) => result = format_pace(arg, RowerRecord)
        /\ arg = 600 => result = (IF is_bike(data) THEN "2:00.0" ELSE "1:00.0")

\* a pace of 1:00.0 per 500 m shown on a bike
C14_Witness ==
    /\ pc = "returned_pace"
    /\ data.machineType = "bike"
    /\ arg = 600
    /\ result = "2:00.0"

\* the paces of the splits that have one
PacesOf(sp) == Truthies(Field(sp, "paceTenths"))

\* the class of pace p against the mean of paces: deviation (p - avg) / avg
\* below -0.005, above 0.005, or in between
PaceClass(p, paces) ==
    LET n == Len(paces)
        total == Sum(paces)
    IN  IF 1000 * (p * n - total) < -5 * total THEN "ahead"
        ELSE IF 1000 * (p * n - total) > 5 * total THEN "behind"
        ELSE "even"

\* C15: every drawn split that has a pace is classified by its deviation
\* from the mean pace of the splits with a pace (below -0.005 ahead, above
\* 0.005 behind, otherwise even); a split without a pace gets no dot; for
\* paces [100, 100, 100, 130] the last split is behind; when all paces are
\* equal every split is even.
C15_PaceDots ==
    \A r \in 1..Len(dots) :
        LET sp == data.splits
            p == sp[shown[r]].paceTenths
        IN  /\ ~Truthy(p) => dots[r] = "none"
            /\ Truthy(p) => dots[r] = PaceClass(p, PacesOf(sp))
            /\ (Truthy(p) /\ AllSame(PacesOf(sp))) => dots[r] = "even"
            /\ (Field(sp, "paceTenths") = <<100, 100, 100, 130>> /\ r = 4) =>
                  dots[r] = "behind"

\* the table of paces 100, 100, 100, 130 drawn to its last row
C15_Witness ==
    /\ pc = "done"
    /\ Field(data.splits, "paceTenths") = <<100, 100, 100, 130>>
    /\ dots = <<"ahead", "ahead", "ahead", "behind">>

(***************************************************************************)
(* Properties of the service                                               *)
(***************************************************************************)

\* the request the claim admits: a body that is present, a registered card
\* type, and a supported format (a missing format is the square one)
ValidBody(b) ==
    /\ b.kind \notin {"none", "empty"}
    /\ b.cardType \in CARD_RENDERERS
    /\ (b.format = Missing \/ b.format \in DIMENSIONS)

\* C16: a renderer is called only for a request whose body is present, whose
\* cardType is registered and whose format is supported; every other request
\* is answered 400 and no renderer is called for it.
C16_RejectedBeforeRender ==
    \A r \in Requests :
        /\ reqs[r].called # "" => ValidBody(reqs[r].body)
        /\ (reqs[r].pc = "responded" /\ ~ValidBody(reqs[r].body)) =>
               (reqs[r].status = 400 /\ reqs[r].called = "")

\* C17: for a supported format and a workout record with any subset of its
\* fields missing, erg_summary and erg_summary_alt complete, so the answer
\* to such a request is never 500.
C17_MissingFieldNever500 ==
    \A r \in Requests :
        (/\ reqs[r].pc = "responded"
         /\ reqs[r].body.kind = "object"
         /\ reqs[r].body.cardType \in {"erg_summary", "erg_summary_alt"}
         /\ reqs[r].body.format \in DIMENSIONS \cup {Missing}) =>
            reqs[r].status = 200

Served(r) == reqs[r].pc = "responded" /\ reqs[r].status = 200

\* C19: two renders of the same card type, format, workout record and
\* options produce the same output, layout and texture alike.
C19_SameInputSameOutput ==
    \A r1, r2 \in Requests :
        (Served(r1) /\ Served(r2) /\ reqs[r1].body = reqs[r2].body) =>
            (reqs[r1].layout = reqs[r2].layout /\ reqs[r1].noise = reqs[r2].noise)

\* the texture of a card rendered alone, from the generator as the process
\* started it
NoiseAlone == [k \in 1..GrainCells |-> <<rng[1], k - 1>>]

\* C20: under any interleaving of the requests, each response is the one
\* the request would have got had it run alone.
C20_AsIfAlone ==
    \A r \in Requests : Served(r) => reqs[r].noise = NoiseAlone

(***************************************************************************)
(* Properties of the rest suffix, the rest rows and the classification     *)
(***************************************************************************)

\* the rest values carried by the splits before the last one
RestsButLast(sp) ==
    Truthies([k \in 1..(Len(sp) - 1) |-> sp[k].restTime])

\* the suffix as documented: empty without rests, exact for equal rests of a
\* type that is not variable, else "~" and the mean
DocumentedSuffix(sp, variable) ==
    LET rests == RestsButLast(sp)
    IN  IF rests = << >> THEN ""
        ELSE IF AllSame(rests) /\ ~variable THEN " / " \o format_rest_coach(rests[1])
        ELSE " / ~" \o format_rest_coach(Sum(rests) \div Len(rests))

EndsWith(s, tail) ==
    Len(s) >= Len(tail) /\ SubSeq(s, Len(s) - Len(tail) + 1, Len(s)) = tail

\* the title of the record is one that carries a rest suffix
SuffixedTitle(d) ==
    /\ is_interval(d) /\ d.splits # << >>
    /\ ~(IsJustRow(d.workoutType) /\ d.inferredTitle # "")
    /\ ~EndsWith(build_title(d), " pieces")

\* C21: the rest suffix of the title is built from the rests of all splits
\* but the last: empty when none has a rest, " / " and the rest when they are
\* equal, " / ~" and their mean otherwise, and always the "~" form for the
\* variable interval types.
C21_RestSuffix ==
    (Titled /\ SuffixedTitle(data)) =>
        LET variable == data.workoutType \in VariableTypes
            suffix == DocumentedSuffix(data.splits, variable)
        IN  /\ _rest_label(data.splits, variable) = suffix
            /\ EndsWith(title, suffix)
            /\ (suffix = "" => ~Contains(title, " / "))

\* two of the rests carried by the splits before the last one differ
RestsDiffer(sp) == ~AllSame(RestsButLast(sp))

\* some split carries a recovery heart rate
AnyRecoveryHeartRate(sp) ==
    \E k \in 1..Len(sp) : sp[k].heartRateRest # None /\ sp[k].heartRateRest # 0

\* the table has been set up
TableSet == pc \in {"layout", "rows", "done"} /\ columns # << >>

C23_NoRestAfterLast ==
    pc \in {"rows", "done"} =>
        /\ NSplits \notin rest_drawn
        /\ Cardinality(rest_drawn) <= n_rest_rows(NSplits, intervals, show_rest_rows)
        /\ Cardinality(rest_drawn) <= Max(0, NSplits - 1)

\* a finished table that shows every split of an interval workout and a
\* rest row after each but the last
C23_Witness ==
    /\ pc = "done" /\ show_rest_rows
    /\ NSplits >= 2 /\ Len(shown) = NSplits
    /\ rest_drawn = 1..(NSplits - 1)

\* the type names of the classification runs that contain "interval" in
\* some mix of upper and lower case
NamedInterval ==
    IntervalTypes \cup {"fixedtimeinterval", "FIXEDDISTANCEINTERVAL", "Intervals",
                        "interval", "fixeddistanceinterval"}

\* C24: is_interval is true exactly when the isInterval flag is set or the
\* workoutType contains "interval" in any case (a missing type does not);
\* is_fixed_time_type is true exactly for FixedTimeSplits and
\* FixedTimeInterval, is_fixed_dist_type exactly for FixedDistanceSplits and
\* FixedDistanceInterval, and the two are never both true.
C24_Classification ==
    /\ pc = "returned_is_interval" =>
          result = Bool(data.isInterval \/ data.workoutType \in NamedInterval)
    /\ pc = "returned_is_fixed_time_type" =>
          result = Bool(data.workoutType \in FixedTimeTypes)
    /\ pc = "returned_is_fixed_dist_type" =>
          result = Bool(data.workoutType \in FixedDistTypes)
    /\ ~(is_fixed_time_type(data) /\ is_fixed_dist_type(data))

\* is_interval has answered yes for a type written in lower case, with the
\* flag not set
C24_Witness ==
    /\ pc = "returned_is_interval"
    /\ data.workoutType = "fixedtimeinterval" /\ ~data.isInterval
    /\ result = "True"

\* C25: when has_uniform_rest reports uniform rests with a value r, every
\* split but the last has restTime r.
C25_UniformMeansAll ==
    (TableSet /\ uniform_rest[1] /\ uniform_rest[2] # None) =>
        \A k \in 1..(NSplits - 1) : data.splits[k].restTime = uniform_rest[2]

(***************************************************************************)
(* Properties of the summary stats, the cursor and the available height    *)
(***************************************************************************)

\* C26: the summary stats are 1 to 4 entries, the hero metric first, and no
\* two entries carry the same label.
C26_StatsGrid ==
    HasStats =>
        /\ Len(stats) >= 1 /\ Len(stats) <= 4
        /\ stats[1] = get_hero(data)
        /\ \A i, j \in 1..Len(stats) : stats[i][2] = stats[j][2] => i = j

\* C27: every pass of the table loop moves the cursor down by at least
\* data_row_h, and by at least the drawn font size data_font + 2, also when
\* the rest row of the split has nothing to show.
C27_CursorAdvance ==
    [][Len(shown') > Len(shown) =>
          (cy' >= cy + data_row_h /\ cy' >= cy + data_font + 2)]_vars

\* C28: the available height handed to the sizing step is positive in every
\* render that lays out a table, so max_rows is the quotient of the
\* division and never the result of the clamp to 1.
C28_AvailPositive ==
    /\ TableSet => avail_height > 0
    /\ pc \in {"rows", "done"} /\ columns # << >> =>
          LET per_row == data_row_h + (IF show_rest_rows THEN rest_row_h ELSE 8)
          IN  avail_height \div per_row >= 1 /\ max_rows = avail_height \div per_row

\* a finished square card with the tallest header: a title of at most 12
\* characters over two rows of summary stats
C28_Witness ==
    /\ pc = "done" /\ columns # << >>
    /\ format_key = "1:1"
    /\ Len(title) <= 12 /\ Len(stats) >= 4
    /\ avail_height = 798

\* the rows of the table whose split has a pace
PacedRows == {r \in 1..Len(dots) : Truthy(data.splits[shown[r]].paceTenths)}

\* C29: when at least one split has a pace, the splits with a pace are not
\* all ahead of the average and not all behind it: one of them has a
\* deviation >= 0 and one has a deviation <= 0.
C29_NotAllOneSide ==
    (pc = "done" /\ Len(dots) = NSplits /\ PacedRows # {}) =>
        LET devs == compute_pace_stats(data.splits)
        IN  /\ \E r \in PacedRows : dots[r] # "ahead"
            /\ \E r \in PacedRows : dots[r] # "behind"
            /\ \E i \in DOMAIN devs : devs[i][1] >= 0
            /\ \E i \in DOMAIN devs : devs[i][1] <= 0

\* a finished table with a split ahead of the average, a split behind it
\* and a split without a pace
C29_Witness ==
    /\ pc = "done" /\ Len(dots) = NSplits
    /\ \E r \in PacedRows : dots[r] = "ahead"
    /\ \E r \in PacedRows : dots[r] = "behind"
    /\ PacedRows # 1..NSplits

\* the handler of the request has ended
Ended(r) == reqs[r].pc = "responded"

\* what holds of a request at every moment: at most one response, of
\* status 200, 400 or 500; at most one call of the renderer; a 200 only
\* after the renderer has returned; a response once the handler has ended
OneResponse(r) ==
    /\ Len(reqs[r].sent) <= 1
    /\ \A k \in 1..Len(reqs[r].sent) : reqs[r].sent[k] \in {200, 400, 500}
    /\ reqs[r].calls <= 1
    /\ reqs[r].sent = <<200>> =>
          (reqs[r].calls = 1 /\ Len(reqs[r].noise) = GrainCells)
    /\ Ended(r) => (Len(reqs[r].sent) = 1 /\ reqs[r].sent[1] = reqs[r].status)

\* C30: every request ends with exactly one response, of status 200, 400
\* or 500; the renderer is called at most once per request, a 200 is sent
\* only after the renderer has returned, and an exception raised while
\* parsing or rendering is answered 500.
C30_ExactlyOneResponse ==
    /\ [](\A r \in Requests : OneResponse(r))
    /\ <>[](\A r \in Requests : Ended(r) /\ Len(reqs[r].sent) = 1)

\* both requests have ended, one with a card and one with the 500 of an
\* exception raised by its renderer
C30_Witness ==
    /\ \A r \in Requests : Ended(r)
    /\ \E r \in Requests : reqs[r].sent = <<200>>
    /\ \E r \in Requests : reqs[r].sent = <<500>> /\ reqs[r].calls = 1

====
